---- MODULE Spec2Model ----
(***************************************************************************)
(* A model of the PDF summarizer pipeline: PDFProcessor (text extraction,  *)
(* token counting, greedy chunking) and PDFSummarizer (per-chunk           *)
(* summaries, the combine pass).                                           *)
(*                                                                         *)
(* Strings are sequences of symbols.  For the chunker the symbols are      *)
(* characters; for the summarizer they are words, so that Python's         *)
(* substring test  'Error' in s  is membership of the word "Error".        *)
(*                                                                         *)
(* One behaviour is one call of one public method: Init draws the method   *)
(* (op) and its arguments, the actions are the steps of its body.          *)
(***************************************************************************)
EXTENDS Integers, Sequences, FiniteSets, TLC

VARIABLES
    op,             \* the public method this behaviour runs
    pc,             \* the position in its body
    text,           \* chunk_text / summarize_text: the text argument
    max_tokens,     \* chunk_text: the token ceiling
    sentences,      \* chunk_text: text.split('. ')
    next_sentence,  \* chunk_text: position of the loop over sentences
    current_chunk,  \* chunk_text: the chunk being packed
    chunks,         \* chunk_text: the result; summarize_chunks: the argument
    summary_type,   \* summarize_text / summarize_chunks: the style selector
    chunk_index,    \* summarize_chunks: i of  for i, chunk in enumerate(chunks)
    chunk_summaries,\* summarize_chunks: the per-chunk entries
    trace,          \* what the summarizer did to the outside: calls, sleeps
    returned,       \* the value the method returned, NoValue before that
    pdf_file,       \* extract_text_from_pdf: the uploaded file
    page_num        \* extract_text_from_pdf: page_num of enumerate(pdf_reader.pages)

chunker_vars == <<text, max_tokens, sentences, next_sentence, current_chunk>>
summarizer_vars == <<summary_type, chunk_index, chunk_summaries, trace, returned>>
extractor_vars == <<pdf_file, page_num>>
vars == <<op, pc, chunks, chunker_vars, summarizer_vars, extractor_vars>>

(* ---------------------------- bounds ---------------------------------- *)
\* longest text handed to chunk_text, in characters
MaxLen == 8
\* largest token ceiling handed to chunk_text
MaxCeiling == 5
\* longest chunk list handed to summarize_chunks
MaxChunks == 3
\* most pages of an uploaded PDF
MaxPages == 3
\* most fragments a raw text handed to clean_text is put together from
MaxFragments == 3

(* ------------------------- string helpers ----------------------------- *)
Letters == {"a"}
Spaces == {" "}
Puncts == {"."}
Alphabet == Letters \cup Spaces \cup Puncts

Min(S) == CHOOSE x \in S : \A y \in S : x <= y
Max(S) == CHOOSE x \in S : \A y \in S : x >= y

\* does pattern p occur in s at position i
OccursAt(s, p, i) ==
    /\ i + Len(p) - 1 <= Len(s)
    /\ \A k \in 1..Len(p) : s[i + k - 1] = p[k]

\* Python's s.split(sep): leftmost non-overlapping separators; "" gives [""]
RECURSIVE split(_, _)
split(s, sep) ==
    LET hits == {i \in 1..Len(s) : OccursAt(s, sep, i)}
    IN  IF hits = {}
        THEN <<s>>
        ELSE LET i == Min(hits)
             IN  <<SubSeq(s, 1, i - 1)>> \o split(SubSeq(s, i + Len(sep), Len(s)), sep)

\* Python's s.strip(): leading and trailing whitespace removed
strip(s) ==
    LET solid == {i \in 1..Len(s) : s[i] \notin Spaces}
    IN  IF solid = {} THEN <<>> ELSE SubSeq(s, Min(solid), Max(solid))

\* the sentence delimiter ". "
Delimiter == <<".", " ">>

(* --------------------------- token counter ---------------------------- *)
\* last index of the run of symbols of class S that starts at i
RunEnd(s, i, S) ==
    CHOOSE j \in i..Len(s) :
        /\ \A k \in i..j : s[k] \in S
        /\ (j = Len(s) \/ s[j + 1] \notin S)

\* The cl100k_base encoding first cuts the text into pieces, in this order of
\* preference at each position: one optional non-letter followed by a run of
\* letters; an optional space followed by a run of punctuation; whitespace
\* (a run that is followed by a non-space leaves its last space to the next
\* piece).  Every piece of the texts considered here is one vocabulary entry,
\* so the token count is the number of pieces.
PieceEnd(s, i) ==
    IF s[i] \in Letters THEN RunEnd(s, i, Letters)
    ELSE IF i < Len(s) /\ s[i + 1] \in Letters THEN RunEnd(s, i + 1, Letters)
    ELSE IF s[i] \in Puncts THEN RunEnd(s, i, Puncts)
    ELSE IF i < Len(s) /\ s[i + 1] \in Puncts THEN RunEnd(s, i + 1, Puncts)
    ELSE LET j == RunEnd(s, i, Spaces)
         IN  IF j = Len(s) THEN j ELSE j - 1

RECURSIVE PiecesFrom(_, _)
PiecesFrom(s, i) ==
    IF i > Len(s) THEN 0 ELSE 1 + PiecesFrom(s, PieceEnd(s, i) + 1)

\* PDFProcessor.count_tokens: len(self.encoding.encode(text))
count_tokens(s) == PiecesFrom(s, 1)

(* ------------------------------ inputs -------------------------------- *)
Strings(n) == UNION {[1..k -> Alphabet] : k \in 0..n}

\* what clean_text can return: ' '.join(text.split()) leaves single spaces
\* between words and none at either end
IsCleaned(s) ==
    /\ s = strip(s)
    /\ \A i \in 1..(Len(s) - 1) : ~(s[i] \in Spaces /\ s[i + 1] \in Spaces)

CleanedTexts == {s \in Strings(MaxLen) : IsCleaned(s)}

\* chunks as chunk_text returns them, of different lengths
ChunkTexts == {<<"a", ".">>, <<"a", ".", " ", "a", ".">>}
ChunkLists == UNION {[1..n -> ChunkTexts] : n \in 0..MaxChunks}

NoValue == <<"no value">>

\* the variables a method does not use, at rest
SummarizerIdle ==
    /\ summary_type = "detailed"
    /\ chunk_index = 0
    /\ chunk_summaries = <<>>
    /\ trace = <<>>
    /\ returned = NoValue

ExtractorIdle ==
    /\ pdf_file = [readable |-> TRUE, pages |-> <<>>]
    /\ page_num = 0

ChunkerIdle ==
    /\ max_tokens = 0
    /\ sentences = <<>>
    /\ next_sentence = 1
    /\ current_chunk = <<>>

(* ------------------------ PDFProcessor.chunk_text --------------------- *)
\* sentences = text.split('. '); chunks = []; current_chunk = ""
ChunkTextSplit ==
    /\ pc = "chunk_text"
    /\ sentences' = split(text, Delimiter)
    /\ chunks' = <<>>
    /\ current_chunk' = <<>>
    /\ next_sentence' = 1
    /\ pc' = "chunk_loop"
    /\ UNCHANGED <<op, text, max_tokens, summarizer_vars, extractor_vars>>

\* ChunkTextSentence with the ceiling tested on the sentence alone instead of
\* on the extended chunk
ChunkTextSentenceAlone ==
    /\ pc = "chunk_loop"
    /\ next_sentence <= Len(sentences)
    /\ LET sentence == sentences[next_sentence]
           test_chunk == current_chunk \o sentence \o Delimiter
       IN  IF count_tokens(sentence) > max_tokens /\ current_chunk # <<>>
           THEN /\ chunks' = Append(chunks, strip(current_chunk))
                /\ current_chunk' = sentence \o Delimiter
           ELSE /\ current_chunk' = test_chunk
                /\ UNCHANGED chunks
    /\ next_sentence' = next_sentence + 1
    /\ UNCHANGED <<op, pc, text, max_tokens, sentences, summarizer_vars, extractor_vars>>

\* ChunkTextSentence closing the chunk already when the extended chunk reaches
\* the ceiling (>= for >)
ChunkTextSentenceAtCeiling ==
    /\ pc = "chunk_loop"
    /\ next_sentence <= Len(sentences)
    /\ LET sentence == sentences[next_sentence]
           test_chunk == current_chunk \o sentence \o Delimiter
       IN  IF count_tokens(test_chunk) >= max_tokens /\ current_chunk # <<>>
           THEN /\ chunks' = Append(chunks, strip(current_chunk))
                /\ current_chunk' = sentence \o Delimiter
           ELSE /\ current_chunk' = test_chunk
                /\ UNCHANGED chunks
    /\ next_sentence' = next_sentence + 1
    /\ UNCHANGED <<op, pc, text, max_tokens, sentences, summarizer_vars, extractor_vars>>

\* one iteration of  for sentence in sentences
ChunkTextSentence ==
    /\ pc = "chunk_loop"
    /\ next_sentence <= Len(sentences)
    /\ LET sentence == sentences[next_sentence]
           test_chunk == current_chunk \o sentence \o Delimiter
       IN  IF count_tokens(test_chunk) > max_tokens /\ current_chunk # <<>>
           THEN /\ chunks' = Append(chunks, strip(current_chunk))
                /\ current_chunk' = sentence \o Delimiter
           ELSE /\ current_chunk' = test_chunk
                /\ UNCHANGED chunks
    /\ next_sentence' = next_sentence + 1
    /\ UNCHANGED <<op, pc, text, max_tokens, sentences, summarizer_vars, extractor_vars>>

\* after the loop: the final chunk, if any content is left; return chunks
ChunkTextReturn ==
    /\ pc = "chunk_loop"
    /\ next_sentence > Len(sentences)
    /\ chunks' = IF strip(current_chunk) # <<>>
                 THEN Append(chunks, strip(current_chunk))
                 ELSE chunks
    /\ pc' = "done"
    /\ UNCHANGED <<op, text, max_tokens, sentences, next_sentence, current_chunk,
                   summarizer_vars, extractor_vars>>

(* ----------------------------- PDFSummarizer -------------------------- *)
\* self.summary_prompts: one instruction template per summary style
summary_prompts ==
    [brief         |-> "Provide a brief, concise summary ... Brief Summary:",
     detailed      |-> "Provide a detailed summary ... Detailed Summary:",
     bullet_points |-> "Summarize ... as clear, organized bullet points ... Bullet Point Summary:",
     executive     |-> "Create an executive summary ... Executive Summary:"]

\* the style selectors a caller may pass: the four styles and one that is none
StyleSelectors == DOMAIN summary_prompts \cup {"fancy"}

\* What a call of the hosted model does: it returns a text or raises.  A
\* returned text may itself hold the word "Error".
ModelTexts == {<<"Findings">>, <<"Error", "rates", "fell">>}
ModelErrors == {"quota exceeded"}
Outcomes ==
    [kind : {"returns"}, value : ModelTexts] \cup [kind : {"raises"}, value : {<<e>> : e \in ModelErrors}]

\* Python's  'Error' in s
HasError(s) == \E k \in 1..Len(s) : s[k] = "Error"

\* time.sleep(1)
SleepSeconds == 1

CallEvent(prompt, outcome) == [kind |-> "call", prompt |-> prompt, outcome |-> outcome]
SleepEvent == [kind |-> "sleep", seconds |-> SleepSeconds]

\* summarize_text that lets the model's exception escape (no try/except)
summarize_text_Unguarded(t, st, outcome) ==
    LET style == IF st \notin DOMAIN summary_prompts THEN "detailed" ELSE st
        prompt == [template |-> summary_prompts[style], text |-> t]
    IN  [calls  |-> <<CallEvent(prompt, outcome)>>,
         raised |-> outcome.kind = "raises",
         value  |-> outcome.value]

\* summarize_text whose failure message does not start with "Error"
summarize_text_FailedMessage(t, st, outcome) ==
    LET style == IF st \notin DOMAIN summary_prompts THEN "detailed" ELSE st
        prompt == [template |-> summary_prompts[style], text |-> t]
    IN  [calls  |-> <<CallEvent(prompt, outcome)>>,
         raised |-> FALSE,
         value  |-> IF outcome.kind = "returns"
                    THEN outcome.value
                    ELSE <<"Failed", "generating", "summary:">> \o outcome.value]

\* summarize_text that falls back to the first template, 'brief'
summarize_text_BriefFallback(t, st, outcome) ==
    LET style == IF st \notin DOMAIN summary_prompts THEN "brief" ELSE st
        prompt == [template |-> summary_prompts[style], text |-> t]
    IN  [calls  |-> <<CallEvent(prompt, outcome)>>,
         raised |-> FALSE,
         value  |-> IF outcome.kind = "returns"
                    THEN outcome.value
                    ELSE <<"Error", "generating", "summary:">> \o outcome.value]

\* PDFSummarizer.summarize_text, given what the model call does: the calls it
\* makes, whether it raises, and the value it returns (or the exception).
\* chain.run is inside  try ... except Exception, so whatever the model call
\* raises comes back as an "Error generating summary: ..." text and
\* summarize_text itself does not raise.
summarize_text(t, st, outcome) ==
    LET style == IF st \notin DOMAIN summary_prompts THEN "detailed" ELSE st
        prompt == [template |-> summary_prompts[style], text |-> t]
    IN  [calls  |-> <<CallEvent(prompt, outcome)>>,
         raised |-> FALSE,
         value  |-> IF outcome.kind = "returns"
                    THEN outcome.value
                    ELSE <<"Error", "generating", "summary:">> \o outcome.value]

\* the entry appended with the index forgotten to be made 1-based
SummaryEntryZeroBased(k, chunk, summary) ==
    [chunk_number    |-> k,
     summary         |-> summary,
     original_length |-> Len(chunk),
     summary_length  |-> Len(summary)]

\* the entry summarize_chunks appends for chunk k (0-based) that was summarized
SummaryEntry(k, chunk, summary) ==
    [chunk_number    |-> k + 1,
     summary         |-> summary,
     original_length |-> Len(chunk),
     summary_length  |-> Len(summary)]

\* the entry summarize_chunks appends when summarize_text raised e
ErrorEntry(k, chunk, e) ==
    [chunk_number    |-> k + 1,
     summary         |-> <<"Error", "processing", "chunk:">> \o e,
     original_length |-> Len(chunk),
     summary_length  |-> 0]

\* str(i + 1) in a section label
Numeral(n) == <<"1", "2", "3", "4", "5", "6", "7", "8", "9">>[n]

\* "\n\n".join(f"Section {i+1}: {summary}" for i, summary in enumerate(...))
RECURSIVE SectionsFrom(_, _)
SectionsFrom(summaries, k) ==
    IF k > Len(summaries) THEN <<>>
    ELSE (IF k > 1 THEN <<"\n\n">> ELSE <<>>)
         \o <<"Section", Numeral(k), ":">> \o summaries[k]
         \o SectionsFrom(summaries, k + 1)

Sections(summaries) == SectionsFrom(summaries, 1)

\* [cs['summary'] for cs in chunk_summaries if 'Error' not in cs['summary']]
RECURSIVE ValidSummaries(_)
ValidSummaries(entries) ==
    IF entries = <<>> THEN <<>>
    ELSE (IF HasError(entries[1].summary) THEN <<>> ELSE <<entries[1].summary>>)
         \o ValidSummaries(Tail(entries))

meta_prompt == "You have been provided with summaries ... Final Cohesive Summary:"

\* combine_summaries that lets the synthesis call's exception escape
combine_summaries_NoFallback(entries, st, outcome) ==
    LET individual_summaries == ValidSummaries(entries)
        combined_text == Sections(individual_summaries)
        prompt == [template |-> meta_prompt, summaries |-> combined_text,
                   summary_type |-> st]
    IN  IF individual_summaries = <<>>
        THEN [calls |-> <<>>, raised |-> FALSE,
              value |-> <<"No", "valid", "summaries", "were", "generated.">>]
        ELSE [calls  |-> <<CallEvent(prompt, outcome)>>,
              raised |-> outcome.kind = "raises",
              value  |-> outcome.value]

\* PDFSummarizer.combine_summaries, given what the synthesis call does
combine_summaries(entries, st, outcome) ==
    LET individual_summaries == ValidSummaries(entries)
        combined_text == Sections(individual_summaries)
        prompt == [template |-> meta_prompt, summaries |-> combined_text,
                   summary_type |-> st]
    IN  IF individual_summaries = <<>>
        THEN [calls |-> <<>>, raised |-> FALSE,
              value |-> <<"No", "valid", "summaries", "were", "generated.">>]
        ELSE [calls  |-> <<CallEvent(prompt, outcome)>>,
              raised |-> FALSE,
              value  |-> IF outcome.kind = "returns"
                         THEN outcome.value
                         ELSE <<"Combined", "Summary:", "\n\n">> \o combined_text]

\* a call of summarize_text by a caller of the class
SummarizeText ==
    /\ pc = "summarize_text"
    /\ \E outcome \in Outcomes :
         LET r == summarize_text(text, summary_type, outcome)
         IN  /\ trace' = trace \o r.calls
             /\ returned' = r.value
             /\ pc' = IF r.raised THEN "raised" ELSE "done"
    /\ UNCHANGED <<op, chunks, chunker_vars, summary_type, chunk_index, chunk_summaries,
                   extractor_vars>>

\* summarize_chunks, up to the loop: chunk_summaries = []
SummarizeChunksBegin ==
    /\ pc = "summarize_chunks"
    /\ chunk_summaries' = <<>>
    /\ chunk_index' = 0
    /\ pc' = "summarize_loop"
    /\ UNCHANGED <<op, chunks, chunker_vars, summary_type, trace, returned, extractor_vars>>

\* one iteration of  for i, chunk in enumerate(chunks): the try block with the
\* call of summarize_text, the entry and the pause, or the except block
SummarizeChunk ==
    /\ pc = "summarize_loop"
    /\ chunk_index < Len(chunks)
    /\ \E outcome \in Outcomes :
         LET chunk == chunks[chunk_index + 1]
             r == summarize_text(chunk, summary_type, outcome)
         IN  IF ~r.raised
             THEN /\ chunk_summaries' =
                        Append(chunk_summaries, SummaryEntry(chunk_index, chunk, r.value))
                  /\ trace' = trace \o r.calls
                                \o (IF chunk_index < Len(chunks) - 1 THEN <<SleepEvent>> ELSE <<>>)
             ELSE /\ chunk_summaries' =
                        Append(chunk_summaries, ErrorEntry(chunk_index, chunk, r.value))
                  /\ trace' = trace \o r.calls
    /\ chunk_index' = chunk_index + 1
    /\ UNCHANGED <<op, pc, chunks, chunker_vars, summary_type, returned, extractor_vars>>

\* after the loop: combine_summaries, then the report is returned
SummarizeChunksCombine ==
    /\ pc = "summarize_loop"
    /\ chunk_index >= Len(chunks)
    /\ \E outcome \in Outcomes :
         LET r == combine_summaries(chunk_summaries, summary_type, outcome)
         IN  /\ trace' = trace \o r.calls
             /\ IF r.raised
                THEN /\ pc' = "raised"
                     /\ returned' = NoValue
                ELSE /\ pc' = "done"
                     /\ returned' = [individual_summaries |-> chunk_summaries,
                                     combined_summary     |-> r.value,
                                     total_chunks         |-> Len(chunks),
                                     summary_type         |-> summary_type]
    /\ UNCHANGED <<op, chunks, chunker_vars, summary_type, chunk_index, chunk_summaries,
                   extractor_vars>>

(* ----------------- PDFProcessor.extract_text_from_pdf ------------------ *)
\* What PyPDF2 does with the uploaded file: PdfReader(pdf_file) succeeds or
\* raises, and on each page extract_text() returns the page's text or raises.
PageTexts == {<<"Alpha">>, <<"Beta">>, <<>>}
PageOutcomes ==
    [kind : {"returns"}, value : PageTexts] \cup [kind : {"raises"}, value : {<<"bad stream">>}]
PdfFiles ==
    [readable : BOOLEAN, pages : UNION {[1..n -> PageOutcomes] : n \in 0..MaxPages}]

\* f"\n--- Page {page_num + 1} ---\n"
PageMarker(n) == <<"\n--- Page ", Numeral(n), " ---\n">>

\* pdf_reader = PyPDF2.PdfReader(pdf_file); text = ""; a failure is re-raised
\* as  Exception("Error reading PDF: ...")
ExtractOpen ==
    /\ pc = "extract_text_from_pdf"
    /\ IF pdf_file.readable
       THEN /\ text' = <<>>
            /\ page_num' = 0
            /\ pc' = "extract_loop"
            /\ UNCHANGED returned
       ELSE /\ pc' = "raised"
            /\ returned' = <<"Error", "reading", "PDF:", "unreadable">>
            /\ UNCHANGED <<text, page_num>>
    /\ UNCHANGED <<op, chunks, max_tokens, sentences, next_sentence, current_chunk,
                   summary_type, chunk_index, chunk_summaries, trace, pdf_file>>

\* ExtractPage with a page's failure left to the outer handler
ExtractPageAbort ==
    /\ pc = "extract_loop"
    /\ page_num < Len(pdf_file.pages)
    /\ LET page == pdf_file.pages[page_num + 1]
       IN  IF page.kind = "returns"
           THEN /\ text' = text \o PageMarker(page_num + 1) \o page.value
                /\ page_num' = page_num + 1
                /\ UNCHANGED <<pc, returned>>
           ELSE /\ pc' = "raised"
                /\ returned' = <<"Error", "reading", "PDF:">> \o page.value
                /\ UNCHANGED <<text, page_num>>
    /\ UNCHANGED <<op, chunks, max_tokens, sentences, next_sentence, current_chunk,
                   summary_type, chunk_index, chunk_summaries, trace, pdf_file>>

\* one iteration of  for page_num, page in enumerate(pdf_reader.pages): the
\* page's text is appended after its marker, or the page is logged and skipped
ExtractPage ==
    /\ pc = "extract_loop"
    /\ page_num < Len(pdf_file.pages)
    /\ LET page == pdf_file.pages[page_num + 1]
       IN  IF page.kind = "returns"
           THEN text' = text \o PageMarker(page_num + 1) \o page.value
           ELSE UNCHANGED text
    /\ page_num' = page_num + 1
    /\ UNCHANGED <<op, pc, chunks, max_tokens, sentences, next_sentence, current_chunk,
                   summarizer_vars, pdf_file>>

\* return text
ExtractReturn ==
    /\ pc = "extract_loop"
    /\ page_num >= Len(pdf_file.pages)
    /\ returned' = text
    /\ pc' = "done"
    /\ UNCHANGED <<op, chunks, chunker_vars, summary_type, chunk_index, chunk_summaries,
                   trace, extractor_vars>>

(* ----------------------- PDFProcessor.clean_text ---------------------- *)
\* the character classes of clean_text's patterns: \w, \d, \s, and the
\* punctuation the fourth pattern keeps; "@" stands for every other character
WordChars == {"a", "P", "g", "e", "1"}
Digits == {"1"}
Whitespace == {" ", "\n"}
KeptPunctuation == {".", "-"}

\* re.sub(c+, c, s): every run of the character c becomes one c
RECURSIVE CollapseRuns(_, _)
CollapseRuns(s, c) ==
    IF Len(s) <= 1 THEN s
    ELSE IF s[1] = c /\ s[2] = c THEN CollapseRuns(Tail(s), c)
    ELSE <<s[1]>> \o CollapseRuns(Tail(s), c)

MarkerHead == <<"-", "-", "-", " ", "P", "a", "g", "e", " ">>
MarkerTail == <<" ", "-", "-", "-">>

\* the length of the match of  --- Page \d+ ---  at position k of s, 0 if none
MarkerLenAt(s, k) ==
    LET d == k + Len(MarkerHead)
    IN  IF OccursAt(s, MarkerHead, k) /\ d <= Len(s) /\ s[d] \in Digits
        THEN LET j == RunEnd(s, d, Digits)
             IN  IF OccursAt(s, MarkerTail, j + 1)
                 THEN j + Len(MarkerTail) - k + 1
                 ELSE 0
        ELSE 0

\* re.sub(r'--- Page \d+ ---', '', s): one pass from the left, the scan going
\* on after each match
RECURSIVE RemoveMarkers(_)
RemoveMarkers(s) ==
    IF s = <<>> THEN <<>>
    ELSE LET n == MarkerLenAt(s, 1)
         IN  IF n > 0
             THEN RemoveMarkers(SubSeq(s, n + 1, Len(s)))
             ELSE <<s[1]>> \o RemoveMarkers(Tail(s))

\* re.sub(r'[^\w\s\.\,\!\?\;\:\-\(\)]', ' ', s)
BlankSpecials(s) ==
    [k \in 1..Len(s) |->
        IF s[k] \in WordChars \cup Whitespace \cup KeptPunctuation THEN s[k] ELSE " "]

\* every run of whitespace that is followed by a word becomes one space, a
\* run at the end nothing
RECURSIVE SingleSpaced(_)
SingleSpaced(s) ==
    IF s = <<>> THEN <<>>
    ELSE IF s[1] \in Whitespace
    THEN IF Len(s) = 1 \/ s[2] \in Whitespace
         THEN SingleSpaced(Tail(s))
         ELSE <<" ">> \o SingleSpaced(Tail(s))
    ELSE <<s[1]>> \o SingleSpaced(Tail(s))

\* s.strip() for the whitespace of this section
StripWhitespace(s) ==
    LET solid == {k \in 1..Len(s) : s[k] \notin Whitespace}
    IN  IF solid = {} THEN <<>> ELSE SubSeq(s, Min(solid), Max(solid))

\* ' '.join(s.split()): the words between runs of whitespace, joined by
\* single spaces
JoinWords(s) == StripWhitespace(SingleSpaced(s))

\* PDFProcessor.clean_text
clean_text(s) ==
    LET newlines == CollapseRuns(s, "\n")
        spaces == CollapseRuns(newlines, " ")
        unmarked == RemoveMarkers(spaces)
        specials == BlankSpecials(unmarked)
        joined == JoinWords(specials)
    IN  StripWhitespace(joined)

\* raw texts: pieces of page markers, whitespace, a special character and
\* ordinary text, put together in any order
Fragments ==
    {<<"-", "-", "-", " ", "P", "a", "g", "e", " ", "1", " ", "-", "-", "-">>,
     <<"-", "-", "-", " ", "P", "a", "g", "e", " ", "1">>,
     <<"P", "a", "g", "e", " ", "1", " ", "-", "-", "-">>,
     <<"-", "-", "-">>,
     <<" ">>, <<"\n">>, <<"@">>, <<"a", ".">>}

RECURSIVE Flatten(_)
Flatten(parts) == IF parts = <<>> THEN <<>> ELSE parts[1] \o Flatten(Tail(parts))

RawTexts == {Flatten(parts) : parts \in UNION {[1..n -> Fragments] : n \in 0..MaxFragments}}

\* a call of clean_text
CleanText ==
    /\ pc = "clean_text"
    /\ returned' = clean_text(text)
    /\ pc' = "done"
    /\ UNCHANGED <<op, chunks, chunker_vars, summary_type, chunk_index, chunk_summaries,
                   trace, extractor_vars>>

(* ------------------------------- Init --------------------------------- *)
InitChunkText ==
    /\ op = "chunk_text"
    /\ pc = "chunk_text"
    /\ text \in CleanedTexts
    /\ max_tokens \in 1..MaxCeiling
    /\ sentences = <<>>
    /\ next_sentence = 1
    /\ current_chunk = <<>>
    /\ chunks = <<>>
    /\ SummarizerIdle
    /\ ExtractorIdle

InitSummarizeText ==
    /\ op = "summarize_text"
    /\ pc = "summarize_text"
    /\ text \in ChunkTexts
    /\ summary_type \in StyleSelectors
    /\ chunks = <<>>
    /\ chunk_index = 0
    /\ chunk_summaries = <<>>
    /\ trace = <<>>
    /\ returned = NoValue
    /\ ChunkerIdle
    /\ ExtractorIdle

InitSummarizeChunks ==
    /\ op = "summarize_chunks"
    /\ pc = "summarize_chunks"
    /\ chunks \in ChunkLists
    /\ summary_type \in StyleSelectors
    /\ text = <<>>
    /\ chunk_index = 0
    /\ chunk_summaries = <<>>
    /\ trace = <<>>
    /\ returned = NoValue
    /\ ChunkerIdle
    /\ ExtractorIdle

InitExtractText ==
    /\ op = "extract_text_from_pdf"
    /\ pc = "extract_text_from_pdf"
    /\ pdf_file \in PdfFiles
    /\ page_num = 0
    /\ text = <<>>
    /\ chunks = <<>>
    /\ ChunkerIdle
    /\ SummarizerIdle

InitCleanText ==
    /\ op = "clean_text"
    /\ pc = "clean_text"
    /\ text \in RawTexts
    /\ chunks = <<>>
    /\ ChunkerIdle
    /\ SummarizerIdle
    /\ ExtractorIdle

Init ==
    \/ InitChunkText
    \/ InitSummarizeText
    \/ InitSummarizeChunks
    \/ InitExtractText
    \/ InitCleanText

(* ------------------------------- Next --------------------------------- *)
Next ==
    \/ ChunkTextSplit
    \/ ChunkTextSentence
    \/ ChunkTextReturn
    \/ SummarizeText
    \/ SummarizeChunksBegin
    \/ SummarizeChunk
    \/ SummarizeChunksCombine
    \/ ExtractOpen
    \/ ExtractPage
    \/ ExtractReturn
    \/ CleanText

Spec == Init /\ [][Next]_vars

(* ===================== properties of chunk_text ======================= *)
ChunkTextDone == op = "chunk_text" /\ pc = "done"

\* A returned chunk is  s1 ". " s2 ". " ... sk "."  for the sentences s1..sk
\* packed into it (no sentence holds ". "), so they are recovered by dropping
\* the closing "." and splitting.
SentencesOf(chunk) == split(SubSeq(chunk, 1, Len(chunk) - 1), Delimiter)

\* Python's sep.join(parts)
RECURSIVE join(_, _)
join(parts, sep) ==
    IF parts = <<>> THEN <<>>
    ELSE IF Len(parts) = 1 THEN parts[1]
    ELSE parts[1] \o sep \o join(Tail(parts), sep)

C2_ChunksReconstructText ==
    ChunkTextDone => join(chunks, <<" ">>) = text

\* C3 as stated: chunk_text on the empty string returns no chunk, whatever
\* the ceiling.
C3_EmptyTextNoChunks ==
    (ChunkTextDone /\ text = <<>>) => chunks = <<>>

(* =================== properties of the summarizer ===================== *)
SummarizeChunksDone == op = "summarize_chunks" /\ pc = "done"

IsSynthesisCall(e) == e.kind = "call" /\ e.prompt.template = meta_prompt
IsChunkCall(e) == e.kind = "call" /\ e.prompt.template # meta_prompt

\* the model calls made for chunks, and for the synthesis, in the order made
ChunkCalls == SelectSeq(trace, IsChunkCall)
SynthesisCalls == SelectSeq(trace, IsSynthesisCall)
\* what summarize_chunks did before combine_summaries
LoopTrace == SelectSeq(trace, LAMBDA e : ~IsSynthesisCall(e))

\* the texts the model returned for chunks, in chunk order
RECURSIVE ReturnedTexts(_)
ReturnedTexts(calls) ==
    IF calls = <<>> THEN <<>>
    ELSE (IF calls[1].outcome.kind = "returns" THEN <<calls[1].outcome.value>> ELSE <<>>)
         \o ReturnedTexts(Tail(calls))

\* C4: in summarize_chunks, whichever chunks' model calls raise, no exception
\* reaches the caller, every chunk is still sent to the model and has its
\* entry (the model's text where the call returned), and the entry of each
\* failed chunk has a summary containing "Error".
C4_ChunkFailuresContained ==
    op = "summarize_chunks" =>
        /\ pc # "raised"
        /\ pc = "done" =>
            /\ Len(ChunkCalls) = Len(chunks)
            /\ Len(returned.individual_summaries) = Len(chunks)
            /\ \A k \in 1..Len(chunks) :
                 /\ ChunkCalls[k].prompt.text = chunks[k]
                 /\ ChunkCalls[k].outcome.kind = "raises" =>
                        HasError(returned.individual_summaries[k].summary)
                 /\ ChunkCalls[k].outcome.kind = "returns" =>
                        returned.individual_summaries[k].summary
                            = ChunkCalls[k].outcome.value

\* three chunks, the middle one's call raised, the others' returned
C4_Witness ==
    /\ SummarizeChunksDone
    /\ Len(chunks) = 3
    /\ ChunkCalls[1].outcome.kind = "returns"
    /\ ChunkCalls[2].outcome.kind = "raises"
    /\ ChunkCalls[3].outcome.kind = "returns"

\* C5 as stated: the synthesis input holds exactly the summaries of the
\* chunks whose model call returned, in chunk order, under the labels
\* Section 1 .. Section k; a summary is left out iff its call failed.
C5_SynthesisInputIsSuccessfulSummaries ==
    SummarizeChunksDone =>
        LET successful == ReturnedTexts(ChunkCalls)
        IN  IF successful = <<>>
            THEN SynthesisCalls = <<>>
            ELSE /\ Len(SynthesisCalls) = 1
                 /\ SynthesisCalls[1].prompt.summaries = Sections(successful)

CombinedHeader == <<"Combined", "Summary:", "\n\n">>

ReportComplete ==
    /\ returned.total_chunks = Len(chunks)
    /\ Len(returned.individual_summaries) = Len(chunks)
    /\ returned.summary_type = summary_type

\* C6 as stated: when the synthesis call fails, combine_summaries does not
\* raise and returns the numbered-section text that was sent to the model,
\* and summarize_chunks returns a complete report.
C6_FallbackIsSentText ==
    op = "summarize_chunks" =>
        /\ SynthesisCalls # <<>> => pc = "done"
        /\ (pc = "done" /\ SynthesisCalls # <<>>
              /\ SynthesisCalls[1].outcome.kind = "raises") =>
            /\ returned.combined_summary = SynthesisCalls[1].prompt.summaries
            /\ ReportComplete

\* C6 amended: when the synthesis call fails, combine_summaries does not
\* raise and returns the header "Combined Summary:" and a blank line followed
\* by the numbered-section text that was sent to the model, and
\* summarize_chunks returns a complete report.
C6_FallbackIsHeaderThenSentText ==
    op = "summarize_chunks" =>
        /\ SynthesisCalls # <<>> => pc = "done"
        /\ (pc = "done" /\ SynthesisCalls # <<>>
              /\ SynthesisCalls[1].outcome.kind = "raises") =>
            /\ returned.combined_summary
                 = CombinedHeader \o SynthesisCalls[1].prompt.summaries
            /\ ReportComplete

\* the synthesis call raised after two sections were sent
C6_Witness ==
    /\ SummarizeChunksDone
    /\ Len(SynthesisCalls) = 1
    /\ SynthesisCalls[1].outcome.kind = "raises"
    /\ Len(ValidSummaries(chunk_summaries)) >= 2

\* C7: the entries are one per chunk in chunk order, during the loop and in
\* the report: entry k has chunk_number k and original_length len(chunk k),
\* and total_chunks is the number of chunks.
C7_EntriesFollowChunks ==
    op = "summarize_chunks" =>
        /\ Len(chunk_summaries) = chunk_index
        /\ chunk_index <= Len(chunks)
        /\ \A k \in 1..Len(chunk_summaries) :
             /\ chunk_summaries[k].chunk_number = k
             /\ chunk_summaries[k].original_length = Len(chunks[k])
        /\ pc = "done" =>
             /\ returned.individual_summaries = chunk_summaries
             /\ Len(returned.individual_summaries) = Len(chunks)
             /\ returned.total_chunks = Len(chunks)

\* three chunks of different lengths, one of them failed
C7_Witness ==
    /\ SummarizeChunksDone
    /\ Len(chunks) = 3
    /\ Len(chunks[1]) # Len(chunks[2])
    /\ \E k \in 1..3 : ChunkCalls[k].outcome.kind = "raises"

\* C8: with a style selector outside the four styles summarize_text does not
\* raise, sends the prompt built from the "detailed" template, and returns
\* what it returns for "detailed".
C8_UnknownStyleIsDetailed ==
    (op \in {"summarize_text", "summarize_chunks"}
       /\ summary_type \notin {"brief", "detailed", "bullet_points", "executive"}) =>
        /\ pc # "raised"
        /\ \A k \in 1..Len(ChunkCalls) :
             ChunkCalls[k].prompt.template = summary_prompts["detailed"]
        /\ (op = "summarize_text" /\ pc = "done") =>
             /\ Len(trace) = 1
             /\ trace[1].prompt = [template |-> summary_prompts["detailed"], text |-> text]
             /\ returned = summarize_text(text, "detailed", trace[1].outcome).value

\* summarize_text has returned for a selector that is no style
C8_Witness ==
    /\ op = "summarize_text"
    /\ pc = "done"
    /\ summary_type = "fancy"
    /\ Len(trace) = 1

\* C9: the chunks are sent one at a time in list order; after the call for
\* every chunk but the last exactly one pause of one second follows, whether
\* the call returned or raised, and none follows the last; the synthesis call
\* comes after all of them.
C9_OnePauseBetweenChunkCalls ==
    op = "summarize_chunks" =>
        LET n == Len(chunks)
            k == Len(chunk_summaries)
        IN  /\ Len(LoopTrace) = IF k = n /\ n > 0 THEN 2 * n - 1 ELSE 2 * k
            /\ \A j \in 1..k :
                 /\ IsChunkCall(LoopTrace[2 * j - 1])
                 /\ LoopTrace[2 * j - 1].prompt.text = chunks[j]
                 /\ j < n => LoopTrace[2 * j] = [kind |-> "sleep", seconds |-> 1]
            /\ SynthesisCalls # <<>> =>
                 /\ trace = LoopTrace \o SynthesisCalls
                 /\ k = n

\* three chunks done, the first call raised, two pauses in all
C9_Witness ==
    /\ SummarizeChunksDone
    /\ Len(chunks) = 3
    /\ ChunkCalls[1].outcome.kind = "raises"
    /\ Len(SelectSeq(trace, LAMBDA e : e.kind = "sleep")) = 2

(* ==================== properties of the extractor ===================== *)
\* pages 1..n of the file, each page that extracted as its marker and text
RECURSIVE ReadablePages(_, _)
ReadablePages(pages, n) ==
    IF n = 0 THEN <<>>
    ELSE ReadablePages(pages, n - 1)
         \o (IF pages[n].kind = "returns"
             THEN <<"\n--- Page ", Numeral(n), " ---\n">> \o pages[n].value
             ELSE <<>>)

\* C10: a page whose extraction fails is skipped and nothing else is lost:
\* the text so far, and the text returned, is the text of every page that
\* extracted, in page order, each after the marker with its own page number;
\* extract_text_from_pdf raises only when the PDF cannot be read at all.
C10_PageFailureSkipsOnlyThatPage ==
    op = "extract_text_from_pdf" =>
        /\ pc = "raised" <=> (~pdf_file.readable /\ returned # NoValue)
        /\ pc = "extract_loop" => text = ReadablePages(pdf_file.pages, page_num)
        /\ pc = "done" =>
             /\ page_num = Len(pdf_file.pages)
             /\ returned = ReadablePages(pdf_file.pages, Len(pdf_file.pages))

\* three pages, the middle one failed, the text of pages 1 and 3 returned
C10_Witness ==
    /\ op = "extract_text_from_pdf"
    /\ pc = "done"
    /\ Len(pdf_file.pages) = 3
    /\ pdf_file.pages[1].kind = "returns"
    /\ pdf_file.pages[2].kind = "raises"
    /\ pdf_file.pages[3].kind = "returns"
    /\ returned = <<"\n--- Page ", "1", " ---\n">> \o pdf_file.pages[1].value
                    \o <<"\n--- Page ", "3", " ---\n">> \o pdf_file.pages[3].value

(* ===================== properties of clean_text ======================= *)
\* s holds a page marker  --- Page <digits> ---  somewhere
HoldsMarker(s) == \E k \in 1..Len(s) : MarkerLenAt(s, k) > 0

\* C11 as stated: whatever the input, what clean_text returns holds no page
\* marker "--- Page <digits> ---", and cleaning it again changes nothing.
C11_CleanTextHasNoMarker ==
    (op = "clean_text" /\ pc = "done") =>
        /\ ~HoldsMarker(returned)
        /\ clean_text(returned) = returned

(* ================= properties of the packing of chunks ================= *)
\* the sentences packed into the first k chunks, in order
RECURSIVE SentencesUpTo(_, _)
SentencesUpTo(cs, k) ==
    IF k = 0 THEN <<>> ELSE SentencesUpTo(cs, k - 1) \o SentencesOf(cs[k])

\* the text "A. B. C." of three one-word sentences
ThreeSentences == <<"a", ".", " ", "a", ".", " ", "a", ".">>

\* a ceiling fits the first n sentences of ThreeSentences when the chunk the
\* chunker measures for them, each sentence followed by ". ", is within it
TwoMeasured == <<"a", ".", " ", "a", ".", " ">>
ThreeMeasured == <<"a", ".", " ", "a", ".", " ", "a", ".", ".", " ">>

\* what a finished chunk_text has returned
PackingResult ==
    ChunkTextDone =>
        /\ sentences = split(text, <<".", " ">>)
        /\ SentencesUpTo(chunks, Len(chunks)) = sentences
        /\ \A k \in 1..Len(chunks) : chunks[k] # <<>>
        /\ (/\ text = ThreeSentences
            /\ count_tokens(TwoMeasured) <= max_tokens
            /\ count_tokens(ThreeMeasured) > max_tokens) =>
               /\ Len(chunks) = 2
               /\ SentencesOf(chunks[1]) = <<sentences[1], sentences[2]>>
               /\ SentencesOf(chunks[2]) = <<sentences[3]>>

\* what one step of the loop over the sentences does
PackingStep ==
    (pc = "chunk_loop" /\ next_sentence' = next_sentence + 1) =>
        LET sentence == sentences[next_sentence]
            extended == current_chunk \o sentence \o <<".", " ">>
            over == current_chunk # <<>> /\ count_tokens(extended) > max_tokens
        IN  /\ Len(chunks') = Len(chunks) + 1 <=> over
            /\ over => /\ chunks' = Append(chunks, strip(current_chunk))
                       /\ current_chunk' = sentence \o <<".", " ">>
            /\ ~over => /\ chunks' = chunks
                        /\ current_chunk' = extended

\* C12: chunk_text packs greedily in one forward pass.  At each sentence the
\* current chunk is closed and a new one started with that sentence exactly
\* when the current chunk is non-empty and, extended by the sentence and
\* ". ", it counts more tokens than the ceiling; otherwise it is extended.
\* So the sentences of the chunks, in order, are the sentences of the text,
\* each once; and "A. B. C." under a ceiling that fits two sentences but not
\* three gives exactly two chunks, A and B in the first, C in the second.
C12_GreedyForwardPacking == []PackingResult /\ [][PackingStep]_vars

\* "A. B. C." under the ceiling 5 has come out as two chunks
C12_Witness ==
    /\ ChunkTextDone
    /\ text = ThreeSentences
    /\ count_tokens(TwoMeasured) <= max_tokens
    /\ count_tokens(ThreeMeasured) > max_tokens
    /\ Len(chunks) = 2

====
